---- MODULE Spec2Model ----
(***************************************************************************)
(* State-machine model of blender-optimize.py: the single procedure        *)
(* optimize_model(), run once at module load.  Every call into the host    *)
(* (bpy / bmesh) is one step; a host call either returns or raises, and a  *)
(* raised error is never caught by the script.  Geometry is abstracted to  *)
(* the two numbers the script reads: len(vertices) and len(polygons).      *)
(***************************************************************************)
EXTENDS Integers, Sequences, FiniteSets

\* ------------------------------------------------------------------ bounds
MaxObjs == 2

\* ------------------------------------------------------- program constants
DIST_MILLI == 1
ANGLE_MILLI == 100
SIMPLIFY_MIN_FACES == 1000
TARGET_MIN_FACES == 100
UNSUBDIV_ITERATIONS == 3
DRACO_LEVEL == 6
VERTEX_LIMIT == 120000

input_path == "/Users/quan/cursor/fellou_hero_try0/LOST_cut2_v5-transformed.glb"
output_path == "/Users/quan/cursor/fellou_hero_try0/v5-optimized-blender.glb"

\* --------------------------------------------------------- names (strings)
\* An object name is a sequence of one-character strings.
Upper == <<"A","B","C","D","E","F","G","H","I","J","K","L","M","N","O","P","Q","R","S","T","U","V","W","X","Y","Z">>
Lower == <<"a","b","c","d","e","f","g","h","i","j","k","l","m","n","o","p","q","r","s","t","u","v","w","x","y","z">>

\* str.lower() on one character
LowerChar(c) ==
  IF \E i \in 1..26 : Upper[i] = c
    THEN Lower[CHOOSE i \in 1..26 : Upper[i] = c]
    ELSE c

\* str.lower()
LowerStr(s) == [i \in 1..Len(s) |-> LowerChar(s[i])]

\* Python's  sub in s  for strings
Contains(sub, s) ==
  \E i \in 1..(Len(s) - Len(sub) + 1) : SubSeq(s, i, i + Len(sub) - 1) = sub

\* the test of the third branch:  'Helper' in obj.name or 'helper' in obj.name.lower()
IsHelperName(name) ==
  \/ Contains(<<"H","e","l","p","e","r">>, name)
  \/ Contains(<<"h","e","l","p","e","r">>, LowerStr(name))

\* ------------------------------------------------------------- input space
N_Cube == <<"C","u","b","e">>
N_Sun == <<"S","u","n">>
N_HELPER == <<"I","K","_","H","E","L","P","E","R">>
N_Helper == <<"H","e","l","p","e","r",".","1">>

VertVals == {0, 120000}
FaceVals == {0, 1000, 1001}

\* geometry the host can hold: a face needs at least three vertices
Geo == {g \in VertVals \X FaceVals : g[2] = 0 \/ g[1] >= 3}

Obj(t, n, v, f) == [type |-> t, name |-> n, verts |-> v, faces |-> f]

\* the kinds of object a GLB file (or the startup scene) can contribute
MeshKinds ==
  {Obj("MESH", N_Cube, 0, 0), Obj("MESH", N_Cube, 120000, 0),
   Obj("MESH", N_Cube, 120000, 1000), Obj("MESH", N_Cube, 120000, 1001),
   Obj("MESH", N_HELPER, 120000, 1000)}
OtherKinds ==
  {Obj("LIGHT", N_Sun, 0, 0), Obj("EMPTY", N_Helper, 0, 0),
   Obj("EMPTY", N_HELPER, 0, 0), Obj("CAMERA", N_Cube, 0, 0)}
ObjKinds == MeshKinds \cup OtherKinds

Scenes == UNION {[1..n -> ObjKinds] : n \in 0..MaxObjs}

\* the factory startup scene: Cube, Light, Camera
DefaultScene == <<Obj("MESH", N_Cube, 120000, 1000), Obj("LIGHT", N_Sun, 0, 0), Obj("CAMERA", N_Cube, 0, 0)>>

\* ------------------------------------------------------------------- state
VARIABLES
  pc,        \* position in optimize_model
  objs,      \* bpy.data.objects: id -> object record
  order,     \* bpy.context.scene.objects: ids in iteration order
  selected,  \* ids of the selected objects
  active,    \* view_layer.objects.active (an id; 0 when none)
  mode,      \* interaction mode of the host: "OBJECT" or "EDIT"
  it,        \* index in order of the object the running for-loop yields next
  obj,       \* loop variable obj (an id; 0 before the loop binds it)
  bm,        \* the BMesh being edited: <<verts, faces>>, <<>> when none
  target_faces_x100,   \* local target_faces, in hundredths
  original,  \* <<original_vertices, original_faces>>
  optimized, \* <<optimized_vertices, optimized_faces>>
  reduction, \* <<vertex_reduction, face_reduction>> as fractions <<num, den>>
  exported,  \* argument records of the export calls made
  failed,    \* the host call or statement that raised, "none" if none
  log        \* host calls and prints, in program order

vars == <<pc, objs, order, selected, active, mode, it, obj, bm, target_faces_x100,
          original, optimized, reduction, exported, failed, log>>

Call(op, o, a) == [kind |-> "call", what |-> op, obj |-> o, arg |-> a]
Say(m, o) == [kind |-> "print", what |-> m, obj |-> o, arg |-> 0]

Max(a, b) == IF a >= b THEN a ELSE b

RECURSIVE SumMesh(_, _, _)
\* the accumulation loops of lines 23-26 and 85-88 over scene.objects
SumMesh(os, ord, acc) ==
  IF ord = <<>> THEN acc
  ELSE LET o == os[Head(ord)]
       IN SumMesh(os, Tail(ord),
                  IF o.type = "MESH"
                    THEN <<acc[1] + o.verts, acc[2] + o.faces>>
                    ELSE acc)

\* Raise with the body wrapped in a handler that falls through to the final
\* messages
Raise_and_go_on(what) ==
  /\ pc' = "print_saved"
  /\ failed' = what

\* an uncaught exception: the procedure stops where it is
Raise(what) ==
  /\ pc' = "error"
  /\ failed' = what

Init ==
  /\ pc = "start"
  /\ \E s \in {<<>>, DefaultScene} :
       /\ objs = s
       /\ order = [i \in 1..Len(s) |-> i]
  /\ selected = {}
  /\ active = 0
  /\ mode = "OBJECT"
  /\ it = 1
  /\ obj = 0
  /\ bm = <<>>
  /\ target_faces_x100 = 0
  /\ original = <<0, 0>>
  /\ optimized = <<0, 0>>
  /\ reduction = <<>>
  /\ exported = {}
  /\ failed = "none"
  /\ log = <<>>

\* line 9
Start ==
  /\ pc = "start"
  /\ pc' = "select_all"
  /\ log' = Append(log, Say("start", 0))
  /\ UNCHANGED <<objs, order, selected, active, mode, it, obj, bm, target_faces_x100,
                 original, optimized, reduction, exported, failed>>

\* line 12: bpy.ops.object.select_all(action='SELECT')
SelectAll ==
  /\ pc = "select_all"
  /\ log' = Append(log, Call("select_all", 0, 0))
  /\ \/ /\ selected' = {order[i] : i \in 1..Len(order)}
        /\ pc' = "delete"
        /\ UNCHANGED failed
     \/ /\ Raise("select_all")
        /\ UNCHANGED selected
  /\ UNCHANGED <<objs, order, active, mode, it, obj, bm, target_faces_x100,
                 original, optimized, reduction, exported>>

\* the ids of seq s that are not in set d, in order
RECURSIVE Without(_, _)
Without(s, d) ==
  IF s = <<>> THEN <<>>
  ELSE IF Head(s) \in d THEN Without(Tail(s), d)
       ELSE <<Head(s)>> \o Without(Tail(s), d)

\* line 13: bpy.ops.object.delete(use_global=False) deletes the selection
DeleteSelected ==
  /\ pc = "delete"
  /\ log' = Append(log, Call("delete", 0, 0))
  /\ \/ /\ order' = Without(order, selected)
        /\ selected' = {}
        /\ pc' = "import"
        /\ UNCHANGED failed
     \/ /\ Raise("delete")
        /\ UNCHANGED <<order, selected>>
  /\ UNCHANGED <<objs, active, mode, it, obj, bm, target_faces_x100,
                 original, optimized, reduction, exported>>

\* line 17: bpy.ops.import_scene.gltf(filepath=input_path); the file's
\* contents are the input of the run
ImportGLB ==
  /\ pc = "import"
  /\ log' = Append(log, Call("import_gltf", 0, 0))
  /\ \/ /\ \E s \in Scenes :
             /\ objs' = s
             /\ order' = [i \in 1..Len(s) |-> i]
             /\ selected' = {i \in 1..Len(s) : TRUE}
        /\ pc' = "count_original"
        /\ UNCHANGED failed
     \/ /\ Raise("import_gltf")
        /\ UNCHANGED <<objs, order, selected>>
  /\ UNCHANGED <<active, mode, it, obj, bm, target_faces_x100,
                 original, optimized, reduction, exported>>

\* lines 20-28
CountOriginal ==
  /\ pc = "count_original"
  /\ original' = SumMesh(objs, order, <<0, 0>>)
  /\ log' = Append(log, Say("original_stats", 0))
  /\ pc' = "loop"
  /\ it' = 1
  /\ UNCHANGED <<objs, order, selected, active, mode, obj, bm, target_faces_x100,
                 optimized, reduction, exported, failed>>

\* Branch with the helper test made before the type tests
Branch_helper_first(o) ==
  IF IsHelperName(o.name) THEN "remove_helper"
  ELSE IF o.type = "MESH" THEN "mesh_begin"
  ELSE IF o.type = "LIGHT" THEN "remove_light"
  ELSE "loop"

\* the if / elif / elif chain of lines 32, 71 and 76
Branch(o) ==
  IF o.type = "MESH" THEN "mesh_begin"
  ELSE IF o.type = "LIGHT" THEN "remove_light"
  ELSE IF IsHelperName(o.name) THEN "remove_helper"
  ELSE "loop"

\* line 31: the for statement asks the iterator over scene.objects for the
\* next object, then lines 32/71/76 pick the branch
LoopNext ==
  /\ pc = "loop"
  /\ IF it > Len(order)
       THEN /\ pc' = "count_optimized"
            /\ UNCHANGED <<it, obj>>
       ELSE /\ obj' = order[it]
            /\ it' = it + 1
            /\ pc' = Branch(objs[order[it]])
  /\ UNCHANGED <<objs, order, selected, active, mode, bm, target_faces_x100,
                 original, optimized, reduction, exported, failed, log>>

\* lines 33-37
MeshBegin ==
  /\ pc = "mesh_begin"
  /\ log' = Append(log, Say("optimizing", obj))
  /\ active' = obj
  /\ selected' = selected \cup {obj}
  /\ pc' = "mode_edit"
  /\ UNCHANGED <<objs, order, mode, it, obj, bm, target_faces_x100,
                 original, optimized, reduction, exported, failed>>

\* line 40: bpy.ops.object.mode_set(mode='EDIT')
ModeEdit ==
  /\ pc = "mode_edit"
  /\ log' = Append(log, Call("mode_set_EDIT", active, 0))
  /\ \/ /\ mode' = "EDIT"
        /\ pc' = "from_mesh"
        /\ UNCHANGED failed
     \/ /\ Raise("mode_set_EDIT")
        /\ UNCHANGED mode
  /\ UNCHANGED <<objs, order, selected, active, it, obj, bm, target_faces_x100,
                 original, optimized, reduction, exported>>

\* line 43: bm = bmesh.from_mesh(obj.data)
FromMesh ==
  /\ pc = "from_mesh"
  /\ log' = Append(log, Call("from_mesh", obj, 0))
  /\ \/ /\ bm' = <<objs[obj].verts, objs[obj].faces>>
        /\ pc' = "remove_doubles"
        /\ UNCHANGED failed
     \/ /\ Raise("from_mesh")
        /\ UNCHANGED bm
  /\ UNCHANGED <<objs, order, selected, active, mode, it, obj, target_faces_x100,
                 original, optimized, reduction, exported>>

\* what a reducing host operator can leave of geometry g: never more
\* vertices, never more faces
Reduced(g) == {h \in Geo : h[1] <= g[1] /\ h[2] <= g[2]}

\* what triangulation can leave of g: the same vertices, no fewer faces,
\* and no face where there was none
Triangulated(g) ==
  {h \in Geo : h[1] = g[1] /\ h[2] >= g[2] /\ (g[2] = 0 => h[2] = 0)}

\* line 46: bmesh.ops.remove_doubles(bm, verts=bm.verts, dist=0.001)
RemoveDoubles ==
  /\ pc = "remove_doubles"
  /\ log' = Append(log, Call("remove_doubles", obj, DIST_MILLI))
  /\ \/ /\ bm' \in Reduced(bm)
        /\ pc' = "dissolve_limit"
        /\ UNCHANGED failed
     \/ /\ Raise("remove_doubles")
        /\ UNCHANGED bm
  /\ UNCHANGED <<objs, order, selected, active, mode, it, obj, target_faces_x100,
                 original, optimized, reduction, exported>>

\* line 49: bmesh.ops.dissolve_limit(bm, angle_limit=0.1, ...)
DissolveLimit ==
  /\ pc = "dissolve_limit"
  /\ log' = Append(log, Call("dissolve_limit", obj, ANGLE_MILLI))
  /\ \/ /\ bm' \in Reduced(bm)
        /\ pc' = "check_faces"
        /\ UNCHANGED failed
     \/ /\ Raise("dissolve_limit")
        /\ UNCHANGED bm
  /\ UNCHANGED <<objs, order, selected, active, mode, it, obj, target_faces_x100,
                 original, optimized, reduction, exported>>

\* NeedsSimplify with >= in place of >
NeedsSimplify_ge(faces) == faces >= SIMPLIFY_MIN_FACES

\* line 52: len(bm.faces) > 1000
NeedsSimplify(faces) == faces > SIMPLIFY_MIN_FACES

\* line 53: max(100, len(bm.faces) * 0.01), in hundredths
TargetFacesX100(faces) == Max(TARGET_MIN_FACES * 100, faces)

\* lines 52-53
CheckFaces ==
  /\ pc = "check_faces"
  /\ IF NeedsSimplify(bm[2])
       THEN /\ target_faces_x100' = TargetFacesX100(bm[2])
            /\ pc' = "unsubdivide"
       ELSE /\ pc' = "triangulate"
            /\ UNCHANGED target_faces_x100
  /\ UNCHANGED <<objs, order, selected, active, mode, it, obj, bm,
                 original, optimized, reduction, exported, failed, log>>

\* line 54: bmesh.ops.unsubdivide(bm, verts=bm.verts, iterations=3)
Unsubdivide ==
  /\ pc = "unsubdivide"
  /\ log' = Append(log, Call("unsubdivide", obj, UNSUBDIV_ITERATIONS))
  /\ \/ /\ bm' \in Reduced(bm)
        /\ pc' = "triangulate"
        /\ UNCHANGED failed
     \/ /\ Raise("unsubdivide")
        /\ UNCHANGED bm
  /\ UNCHANGED <<objs, order, selected, active, mode, it, obj, target_faces_x100,
                 original, optimized, reduction, exported>>

\* line 57: bmesh.ops.triangulate(bm, faces=bm.faces)
Triangulate ==
  /\ pc = "triangulate"
  /\ log' = Append(log, Call("triangulate", obj, 0))
  /\ \/ /\ bm' \in Triangulated(bm)
        /\ pc' = "to_mesh"
        /\ UNCHANGED failed
     \/ /\ Raise("triangulate")
        /\ UNCHANGED bm
  /\ UNCHANGED <<objs, order, selected, active, mode, it, obj, target_faces_x100,
                 original, optimized, reduction, exported>>

\* ToMesh with the return to object mode left out
ToMesh_stay_in_edit ==
  /\ pc = "to_mesh"
  /\ log' = Append(log, Call("to_mesh", obj, 0))
  /\ \/ /\ objs' = [objs EXCEPT ![obj].verts = bm[1], ![obj].faces = bm[2]]
        /\ bm' = <<>>
        /\ pc' = "shade_smooth"
        /\ UNCHANGED failed
     \/ /\ Raise("to_mesh")
        /\ UNCHANGED <<objs, bm>>
  /\ UNCHANGED <<order, selected, active, mode, it, obj, target_faces_x100,
                 original, optimized, reduction, exported>>

\* lines 60-61: bm.to_mesh(obj.data); bm.free()
ToMesh ==
  /\ pc = "to_mesh"
  /\ log' = Append(log, Call("to_mesh", obj, 0))
  /\ \/ /\ objs' = [objs EXCEPT ![obj].verts = bm[1], ![obj].faces = bm[2]]
        /\ bm' = <<>>
        /\ pc' = "mode_object"
        /\ UNCHANGED failed
     \/ /\ Raise("to_mesh")
        /\ UNCHANGED <<objs, bm>>
  /\ UNCHANGED <<order, selected, active, mode, it, obj, target_faces_x100,
                 original, optimized, reduction, exported>>

\* line 64: bpy.ops.object.mode_set(mode='OBJECT')
ModeObject ==
  /\ pc = "mode_object"
  /\ log' = Append(log, Call("mode_set_OBJECT", active, 0))
  /\ \/ /\ mode' = "OBJECT"
        /\ pc' = "shade_smooth"
        /\ UNCHANGED failed
     \/ /\ Raise("mode_set_OBJECT")
        /\ UNCHANGED mode
  /\ UNCHANGED <<objs, order, selected, active, it, obj, bm, target_faces_x100,
                 original, optimized, reduction, exported>>

\* line 67: bpy.ops.object.shade_smooth()
ShadeSmooth ==
  /\ pc = "shade_smooth"
  /\ log' = Append(log, Call("shade_smooth", active, 0))
  /\ \/ /\ pc' = "mesh_done"
        /\ UNCHANGED failed
     \/ Raise("shade_smooth")
  /\ UNCHANGED <<objs, order, selected, active, mode, it, obj, bm, target_faces_x100,
                 original, optimized, reduction, exported>>

\* line 69
MeshDone ==
  /\ pc = "mesh_done"
  /\ log' = Append(log, Say("mesh_done", obj))
  /\ pc' = "loop"
  /\ UNCHANGED <<objs, order, selected, active, mode, it, obj, bm, target_faces_x100,
                 original, optimized, reduction, exported, failed>>

\* seq s without its element x
RemoveId(s, x) == Without(s, {x})

\* Where the running iterator over scene.objects can stand after the object
\* it last yielded (at index i - 1) was removed from the collection.  The host
\* documents removal during iteration as unsafe: the iterator holds a link
\* into freed memory.  It may go on with the object that followed (i - 1 in
\* the shortened sequence), pass over objects, or stop early (n + 1).
IterAfterRemove(i, n) == (i - 1)..(n + 1)

\* bpy.data.objects.remove(obj, do_unlink=True) during the iteration
RemoveCurrent(what) ==
  /\ log' = Append(Append(log, Say(what, obj)), Call("objects_remove", obj, 0))
  /\ \/ /\ order' = RemoveId(order, obj)
        /\ selected' = selected \ {obj}
        /\ active' = IF active = obj THEN 0 ELSE active
        /\ \/ /\ it' \in IterAfterRemove(it, Len(order) - 1)
              /\ pc' = "loop"
           \/ /\ pc' = "crashed"
              /\ UNCHANGED it
        /\ UNCHANGED failed
     \/ /\ Raise("objects_remove")
        /\ UNCHANGED <<order, selected, active, it>>
  /\ UNCHANGED <<objs, mode, obj, bm, target_faces_x100,
                 original, optimized, reduction, exported>>

\* lines 71-74
RemoveLight ==
  /\ pc = "remove_light"
  /\ RemoveCurrent("remove_light")

\* lines 76-79
RemoveHelper ==
  /\ pc = "remove_helper"
  /\ RemoveCurrent("remove_helper")

\* CountOptimized with the export moved ahead of the reduction report
CountOptimized_then_export ==
  /\ pc = "count_optimized"
  /\ optimized' = SumMesh(objs, order, <<0, 0>>)
  /\ log' = Append(log, Say("optimized_stats", 0))
  /\ pc' = "export"
  /\ UNCHANGED <<objs, order, selected, active, mode, it, obj, bm, target_faces_x100,
                 original, reduction, exported, failed>>

\* lines 82-90
CountOptimized ==
  /\ pc = "count_optimized"
  /\ optimized' = SumMesh(objs, order, <<0, 0>>)
  /\ log' = Append(log, Say("optimized_stats", 0))
  /\ pc' = "reduction"
  /\ UNCHANGED <<objs, order, selected, active, mode, it, obj, bm, target_faces_x100,
                 original, reduction, exported, failed>>

\* DivRaises for a division that yields a value for every divisor
DivRaises_never(a, b) == FALSE

\* Python's  a / b  on ints raises ZeroDivisionError exactly when b = 0
DivRaises(a, b) == b = 0

\* (orig - opt) / orig * 100 as the fraction <<numerator, denominator>>
ReductionPct(orig, opt) == <<(orig - opt) * 100, orig>>

\* Reduction with the optimized totals as the divisors
Reduction_by_optimized ==
  /\ pc = "reduction"
  /\ IF DivRaises(original[1] - optimized[1], optimized[1])
       THEN /\ Raise("vertex_reduction")
            /\ UNCHANGED <<reduction, log>>
       ELSE IF DivRaises(original[2] - optimized[2], optimized[2])
         THEN /\ Raise("face_reduction")
              /\ UNCHANGED <<reduction, log>>
         ELSE /\ reduction' = <<ReductionPct(optimized[1], original[1]),
                                ReductionPct(optimized[2], original[2])>>
              /\ log' = Append(log, Say("reduction", 0))
              /\ pc' = "export"
              /\ UNCHANGED failed
  /\ UNCHANGED <<objs, order, selected, active, mode, it, obj, bm, target_faces_x100,
                 original, optimized, exported>>

\* lines 93-96
Reduction ==
  /\ pc = "reduction"
  /\ IF DivRaises(original[1] - optimized[1], original[1])
       THEN /\ Raise("vertex_reduction")
            /\ UNCHANGED <<reduction, log>>
       ELSE IF DivRaises(original[2] - optimized[2], original[2])
         THEN /\ Raise("face_reduction")
              /\ UNCHANGED <<reduction, log>>
         ELSE /\ reduction' = <<ReductionPct(original[1], optimized[1]),
                                ReductionPct(original[2], optimized[2])>>
              /\ log' = Append(log, Say("reduction", 0))
              /\ pc' = "export"
              /\ UNCHANGED failed
  /\ UNCHANGED <<objs, order, selected, active, mode, it, obj, bm, target_faces_x100,
                 original, optimized, exported>>

\* ExportArgs with the compression level chosen from the vertex total
ExportArgs_by_size ==
  [filepath |-> output_path,
   export_format |-> "GLB",
   export_animations |-> TRUE,
   export_lights |-> FALSE,
   export_cameras |-> FALSE,
   export_extras |-> FALSE,
   export_draco_mesh_compression_enable |-> TRUE,
   export_draco_mesh_compression_level |->
     IF optimized[1] > VERTEX_LIMIT THEN 10 ELSE DRACO_LEVEL]

\* the keyword arguments of lines 100-109
ExportArgs ==
  [filepath |-> output_path,
   export_format |-> "GLB",
   export_animations |-> TRUE,
   export_lights |-> FALSE,
   export_cameras |-> FALSE,
   export_extras |-> FALSE,
   export_draco_mesh_compression_enable |-> TRUE,
   export_draco_mesh_compression_level |-> DRACO_LEVEL]

\* lines 99-109: bpy.ops.export_scene.gltf(...)
Export ==
  /\ pc = "export"
  /\ log' = Append(log, Call("export_gltf", 0, 0))
  /\ exported' = exported \cup {ExportArgs}
  /\ \/ /\ pc' = "print_saved"
        /\ UNCHANGED failed
     \/ Raise("export_gltf")
  /\ UNCHANGED <<objs, order, selected, active, mode, it, obj, bm, target_faces_x100,
                 original, optimized, reduction>>

\* line 111
PrintSaved ==
  /\ pc = "print_saved"
  /\ log' = Append(log, Say("saved", 0))
  /\ pc' = "threshold"
  /\ UNCHANGED <<objs, order, selected, active, mode, it, obj, bm, target_faces_x100,
                 original, optimized, reduction, exported, failed>>

\* WithinLimit with < in place of <=
WithinLimit_strict(v) == v < VERTEX_LIMIT

\* line 113
WithinLimit(v) == v <= VERTEX_LIMIT

\* lines 113-116
Threshold ==
  /\ pc = "threshold"
  /\ log' = Append(log, Say(IF WithinLimit(optimized[1]) THEN "success" ELSE "needs_more", 0))
  /\ pc' = "done"
  /\ UNCHANGED <<objs, order, selected, active, mode, it, obj, bm, target_faces_x100,
                 original, optimized, reduction, exported, failed>>

Next ==
  \/ Start \/ SelectAll \/ DeleteSelected \/ ImportGLB \/ CountOriginal
  \/ LoopNext \/ MeshBegin \/ ModeEdit \/ FromMesh \/ RemoveDoubles
  \/ DissolveLimit \/ CheckFaces \/ Unsubdivide \/ Triangulate \/ ToMesh
  \/ ModeObject \/ ShadeSmooth \/ MeshDone \/ RemoveLight \/ RemoveHelper
  \/ CountOptimized \/ Reduction \/ Export \/ PrintSaved \/ Threshold

Spec == Init /\ [][Next]_vars

\* ----------------------------------------------------------- log helpers
At(what) == {i \in 1..Len(log) : log[i].what = what}
Happened(what) == At(what) # {}
LastWhat == IF log = <<>> THEN "nothing" ELSE log[Len(log)].what

HostCalls ==
  {"select_all", "delete", "import_gltf", "mode_set_EDIT", "from_mesh",
   "remove_doubles", "dissolve_limit", "unsubdivide", "triangulate", "to_mesh",
   "mode_set_OBJECT", "shade_smooth", "objects_remove", "export_gltf"}
MeshOps ==
  {"mode_set_EDIT", "from_mesh", "remove_doubles", "dissolve_limit",
   "unsubdivide", "triangulate", "to_mesh", "mode_set_OBJECT"}
LoopEntries ==
  MeshOps \cup {"optimizing", "shade_smooth", "mesh_done", "remove_light",
                "remove_helper", "objects_remove"}

\* the objects of the scene, and those of them that are meshes
InScene == {order[i] : i \in 1..Len(order)}
MeshesInScene == {i \in InScene : objs[i].type = "MESH"}

\* ------------------------------------------------------------------- C1
\* The order of steps as the claim states it: clear, import, mesh operators,
\* deletions, shading, export, statistics.
ClaimedStage(w) ==
  CASE w \in {"select_all", "delete"} -> 1
    [] w = "import_gltf" -> 2
    [] w \in MeshOps -> 3
    [] w = "objects_remove" -> 4
    [] w = "shade_smooth" -> 5
    [] w = "export_gltf" -> 6
    [] w \in {"original_stats", "optimized_stats", "reduction"} -> 7
    [] OTHER -> 0

\* C1 as stated: clear scene, import, per-mesh operators, deletion of lights
\* and helpers, shading, export, and only then the statistics, each step
\* complete before the next begins.
C1_ClaimedOrder ==
  \A i, j \in 1..Len(log) :
    (/\ ClaimedStage(log[i].what) # 0
     /\ ClaimedStage(log[j].what) # 0
     /\ ClaimedStage(log[i].what) < ClaimedStage(log[j].what)) => i < j

\* The order of steps in the code.
Stage(w) ==
  CASE w = "start" -> 1
    [] w = "select_all" -> 2
    [] w = "delete" -> 3
    [] w = "import_gltf" -> 4
    [] w = "original_stats" -> 5
    [] w \in LoopEntries -> 6
    [] w = "optimized_stats" -> 7
    [] w = "reduction" -> 8
    [] w = "export_gltf" -> 9
    [] w = "saved" -> 10
    [] w \in {"success", "needs_more"} -> 11

\* C1 (amended): the steps occur in the order  clear scene, import GLB, print
\* the original statistics, one pass over the scene's objects (each mesh is
\* optimized and smooth-shaded, each light or helper deleted, when the pass
\* reaches it), print the optimized statistics, print the reduction, export,
\* completion message, verdict; each step outside the pass happens once, and
\* no step happens unless every earlier step outside the pass has happened.
C1_ActualOrder ==
  /\ log # <<>> => Stage(log[1].what) = 1
  /\ \A j \in 2..Len(log) :
       LET s == Stage(log[j - 1].what)
           u == Stage(log[j].what)
       IN \/ s = 6 /\ u = 6
          \/ u = s + 1
          \/ s = 5 /\ u = 7

\* a completed run in which a mesh was optimized after a light or helper was
\* deleted
C1_Witness ==
  /\ pc = "done"
  /\ \E i, j \in 1..Len(log) :
       i < j /\ log[i].what = "objects_remove" /\ log[j].what = "triangulate"

\* ------------------------------------------------------------------- C2
\* C2: once the optimized statistics are printed with an original vertex
\* total of zero, the reduction statement raises ZeroDivisionError, nothing
\* later runs (nothing is printed or called after the optimized statistics,
\* nothing is exported) and the run is in the error state.
C2_ZeroVerticesRaise ==
  (Happened("optimized_stats") /\ original[1] = 0 /\ pc # "reduction")
    => /\ pc = "error"
       /\ failed = "vertex_reduction"
       /\ LastWhat = "optimized_stats"
       /\ exported = {}

C2_Witness ==
  /\ failed = "vertex_reduction"
  /\ MeshesInScene # {}
  /\ \A i \in MeshesInScene : objs[i].verts = 0

\* ------------------------------------------------------------------- C3
\* C3 as stated: after a run the scene holds no light and no object whose
\* name contains 'helper' in any letter case.
C3_NoLightNoHelperLeft ==
  pc = "done" =>
    \A i \in InScene :
      /\ objs[i].type # "LIGHT"
      /\ ~Contains(<<"h","e","l","p","e","r">>, LowerStr(objs[i].name))

\* ------------------------------------------------------------------- C4
\* C4: every export call is made with the literal output path, format GLB,
\* animations on, lights, cameras and extras off, DRACO compression on at
\* level 6, whatever the scene and the statistics.
C4_ExportSettingsFixed ==
  /\ exported \subseteq
       {[filepath |-> "/Users/quan/cursor/fellou_hero_try0/v5-optimized-blender.glb",
         export_format |-> "GLB",
         export_animations |-> TRUE,
         export_lights |-> FALSE,
         export_cameras |-> FALSE,
         export_extras |-> FALSE,
         export_draco_mesh_compression_enable |-> TRUE,
         export_draco_mesh_compression_level |-> 6]}
  /\ Happened("export_gltf") <=> exported # {}

\* an export made for a scene over the vertex limit
C4_Witness ==
  /\ exported # {}
  /\ optimized[1] > 120000
  /\ Len(order) = MaxObjs

\* ------------------------------------------------------------------- C5
\* C5: the success message is printed exactly in the finished runs whose
\* optimized vertex total (the sum over the scene's meshes) is <= 120000, the
\* 'needs further optimization' message exactly in the other finished runs,
\* and when the comparison is made the one export call has already been made.
C5_ThresholdAdvisory ==
  /\ Happened("success") <=> (pc = "done" /\ optimized[1] <= 120000)
  /\ Happened("needs_more") <=> (pc = "done" /\ optimized[1] > 120000)
  /\ pc \in {"threshold", "done"} =>
       /\ Cardinality(At("export_gltf")) = 1
       /\ optimized = SumMesh(objs, order, <<0, 0>>)
       /\ \A i \in At("export_gltf") :
            \A j \in At("success") \cup At("needs_more") \cup At("saved") : i < j

C5_Witness ==
  /\ pc = "done"
  /\ Happened("success")
  /\ Happened("to_mesh")
  /\ optimized[1] = 120000

\* ------------------------------------------------------------------- C6
\* C6: a failing host call ends the run: the state is the error state, the
\* failing call is the last thing the run did; after a failed clear there is
\* no import, after a failed import no mesh operator and no export, and after
\* a failed export no completion message.
C6_FailurePropagates ==
  /\ failed # "none" => pc = "error"
  /\ failed \in HostCalls =>
       /\ LastWhat = failed
       /\ log[Len(log)].kind = "call"
  /\ failed \in {"select_all", "delete"} => ~Happened("import_gltf")
  /\ failed = "import_gltf" =>
       /\ \A i \in 1..Len(log) : log[i].what \notin LoopEntries \cup {"export_gltf"}
       /\ exported = {}
  /\ failed \in MeshOps => ~Happened("export_gltf")
  /\ failed = "export_gltf" =>
       ~Happened("saved") /\ ~Happened("success") /\ ~Happened("needs_more")

C6_Witness ==
  /\ pc = "error"
  /\ failed = "export_gltf"

MeshEntries == MeshOps \cup {"shade_smooth", "mesh_done"}

\* what must come right before a mesh entry, and the argument it is called with
Before(w) ==
  CASE w = "mode_set_EDIT" -> {"optimizing"}
    [] w = "from_mesh" -> {"mode_set_EDIT"}
    [] w = "remove_doubles" -> {"from_mesh"}
    [] w = "dissolve_limit" -> {"remove_doubles"}
    [] w = "unsubdivide" -> {"dissolve_limit"}
    [] w = "triangulate" -> {"dissolve_limit", "unsubdivide"}
    [] w = "to_mesh" -> {"triangulate"}
    [] w = "mode_set_OBJECT" -> {"to_mesh"}
    [] w = "shade_smooth" -> {"mode_set_OBJECT"}
    [] w = "mesh_done" -> {"shade_smooth"}
ArgOf(w) ==
  CASE w = "remove_doubles" -> 1
    [] w = "dissolve_limit" -> 100
    [] w = "unsubdivide" -> 3
    [] OTHER -> 0

\* C8: what is done to a mesh object is, in this order and with nothing in
\* between: edit mode, remove doubles (0.001), limited dissolve (0.1),
\* optionally unsubdivide (3), triangulate, write back, object mode, smooth
\* shading, all on the object the loop holds; and the host is in object mode
\* whenever the loop takes its next object.
C8_PerMeshOperatorOrder ==
  /\ \A k \in 1..Len(log) :
       log[k].what \in MeshEntries =>
         /\ k > 1
         /\ log[k - 1].what \in Before(log[k].what)
         /\ log[k - 1].obj = log[k].obj
         /\ log[k].arg = ArgOf(log[k].what)
  /\ \A k \in 2..Len(log) :
       log[k - 1].what \in (MeshEntries \cup {"optimizing"}) \ {"mesh_done"}
         => log[k].what \in MeshEntries
  /\ pc \in {"loop", "mesh_begin", "remove_light", "remove_helper", "count_optimized"}
       => mode = "OBJECT"
  /\ mode = "EDIT" => (active = obj /\ objs[obj].type = "MESH")

\* two meshes optimized in one run, one of them simplified
C8_Witness ==
  /\ Cardinality(At("mesh_done")) = 2
  /\ Happened("unsubdivide")
  /\ pc = "done"

\* ------------------------------------------------------------------- C9
RunEnded == pc \in {"done", "error", "crashed"}
HostSucceeded == pc # "crashed" /\ failed \notin HostCalls

\* C9 as stated: with every host operation succeeding, a run whose original
\* vertex total is > 0 reaches the export, also when the original face total
\* is zero.
C9_ExportWhenVerticesPositive ==
  (RunEnded /\ HostSucceeded /\ Happened("original_stats") /\ original[1] > 0)
    => Happened("export_gltf")

\* C9 (amended): with every host operation succeeding, a run whose original
\* vertex total and original face total are both > 0 reaches the export.
C9_ExportWhenBothPositive ==
  (RunEnded /\ HostSucceeded /\ Happened("original_stats")
     /\ original[1] > 0 /\ original[2] > 0)
    => Happened("export_gltf")

\* an export of a scene whose meshes came out with no face left
C9_Witness ==
  /\ Happened("export_gltf")
  /\ original[2] > 0
  /\ optimized[2] = 0

\* ------------------------------------------------------------------ C10
Imported == Happened("original_stats")
Removed == {log[i].obj : i \in {k \in At("objects_remove") : failed # "objects_remove" \/ k < Len(log)}}

\* C10: from the import on, the meshes of the scene are the meshes that were
\* imported; an object that is no mesh, no light and not helper-named stays
\* in the scene as it was; only lights and helper-named non-meshes are ever
\* handed to the removal, so a helper-named mesh takes the mesh branch.
C10_MeshesKept ==
  Imported =>
    /\ MeshesInScene = {i \in DOMAIN objs : objs[i].type = "MESH"}
    /\ \A i \in DOMAIN objs :
         (objs[i].type \notin {"MESH", "LIGHT"} /\ ~IsHelperName(objs[i].name))
           => (i \in InScene /\ objs[i] \in OtherKinds)
    /\ \A i \in DOMAIN objs : i \notin InScene => i \in Removed
    /\ \A i \in At("objects_remove") \cup At("remove_light") \cup At("remove_helper") :
         objs[log[i].obj].type # "MESH"
    /\ pc \in {"remove_light", "remove_helper"} => objs[obj].type # "MESH"
    /\ \A i \in At("optimizing") : objs[log[i].obj].type = "MESH"

\* a finished run that optimized a helper-named mesh and removed something
C10_Witness ==
  /\ pc = "done"
  /\ Happened("objects_remove")
  /\ \E i \in At("mesh_done") : IsHelperName(objs[log[i].obj].name)
====
